---- MODULE Spec2Model ----
(***************************************************************************)
(* A model of the goldenfile Mint (src/src/mint.rs) and of the text differ *)
(* (src/src/differs.rs).                                                   *)
(*                                                                         *)
(* The state is the Mint's fields (files, create_empty, its tempdir), the  *)
(* two directory trees it works on (the goldenfile directory `path` and    *)
(* the temporary directory), the panic state of the test thread and the    *)
(* two environment variables read by Drop.  Every public method of Mint is *)
(* one action; the test body is the environment: it writes files at the    *)
(* paths the Mint handed out, and it may panic.                            *)
(*                                                                         *)
(* Environment assumptions, stated once:                                   *)
(*   - file contents are UTF-8 text (what read_file's read_to_string       *)
(*     accepts);                                                           *)
(*   - the goldenfile directory already holds the sub-directories of the   *)
(*     relative paths used (the layout the tests commit), the temporary    *)
(*     directory starts empty;                                             *)
(*   - copies made by the teardown passes fail only for a missing source   *)
(*     or a missing destination directory.                                 *)
(***************************************************************************)
EXTENDS Integers, Sequences, FiniteSets, TLC

\* The longest registry `files` the model explores.
MaxFiles == 2

VARIABLES
    fs,            \* the files of both trees: location -> file state
    tempdirs,      \* the directories of the tempdir that exist (<<>> is its root)
    files,         \* Mint.files: the registry
    create_empty,  \* Mint.create_empty
    moved,         \* per path: the content the last successful move put in the tempdir
    panicking,     \* thread::panicking()
    pc,            \* "live" (Mint in scope), "dropped", "aborted" (panic while unwinding)
    legacy_var,    \* REGENERATE_GOLDENFILES in the environment of Drop
    update_var,    \* UPDATE_GOLDENFILES in the environment of Drop
    last           \* the last call made: its name, argument and outcome

vars == <<fs, tempdirs, files, create_empty, moved, panicking, pc,
          legacy_var, update_var, last>>

----------------------------------------------------------------------------
\* Paths.  A path is its root flag, its directory components and its file
\* name split at the extension.

PathA == [root |-> FALSE, dirs |-> <<>>, stem |-> "out", ext |-> "txt"]
PathB == [root |-> FALSE, dirs |-> <<"sub">>, stem |-> "data", ext |-> "bin"]
PathAbs == [root |-> TRUE, dirs |-> <<"var">>, stem |-> "out", ext |-> "txt"]
NoPath == [root |-> FALSE, dirs |-> <<>>, stem |-> "", ext |-> ""]

RelPaths == {PathA, PathB}
Paths == RelPaths \cup {PathAbs}

\* Path::is_relative
is_relative(path) == ~path.root

\* The two directories a relative path is joined to.
GoldenRoot == "path"
TempRoot == "tempdir"

\* Path::join: an absolute argument replaces the base.
Join(base, path) == IF path.root THEN <<"/", path>> ELSE <<base, path>>

Locs == {GoldenRoot, TempRoot} \X RelPaths
NoLoc == <<"", NoPath>>

\* Path::parent of a location, as the directory components below its root.
Parent(loc) == loc[2].dirs

----------------------------------------------------------------------------
\* Files.

NL == "\n"
Contents == { <<>>, <<"a", NL>> }

Absent == [exists |-> FALSE, data |-> <<>>]
FileOf(c) == [exists |-> TRUE, data |-> c]
FileStates == {Absent} \cup {FileOf(c) : c \in Contents}

\* The directory of a location exists: the goldenfile tree has every
\* directory, the tempdir only those created so far.
DirExists(dirs, loc) ==
    \/ loc[1] = GoldenRoot
    \/ loc[1] = TempRoot /\ Parent(loc) \in dirs

----------------------------------------------------------------------------
\* The differs.

Differs == {"text_diff", "binary_diff"}

\* The differ a test hands to the _with_differ methods: the one of differs.rs.
GivenDiffers == {"text_diff"}

\* get_differ_for_path
get_differ_for_path(path) ==
    IF path.ext \in {"bin", "exe", "gz", "tar", "zip"}
    THEN "binary_diff"
    ELSE "text_diff"

\* str::split on a separator: the pieces between the separators.
RECURSIVE SplitOn(_, _)
SplitOn(s, sep) ==
    IF \A i \in 1..Len(s) : s[i] # sep
    THEN <<s>>
    ELSE LET k == CHOOSE i \in 1..Len(s) :
                      s[i] = sep /\ \A j \in 1..(i-1) : s[j] # sep
         IN <<SubSeq(s, 1, k-1)>> \o SplitOn(SubSeq(s, k+1, Len(s)), sep)

\* The length of a longest common subsequence of two token lists.
RECURSIVE LcsLen(_, _)
LcsLen(a, b) ==
    IF Len(a) = 0 \/ Len(b) = 0 THEN 0
    ELSE IF Head(a) = Head(b) THEN 1 + LcsLen(Tail(a), Tail(b))
    ELSE LET x == LcsLen(Tail(a), b)
             y == LcsLen(a, Tail(b))
         IN IF x >= y THEN x ELSE y

\* difference::Changeset::new(..).distance: insertions plus deletions.
Distance(orig, edit, sep) ==
    LET a == SplitOn(orig, sep)
        b == SplitOn(edit, sep)
    IN Len(a) + Len(b) - 2 * LcsLen(a, b)

\* read_file: the content, or a panic when the file cannot be opened.
read_file(f) == IF f.exists THEN [ok |-> TRUE, contents |-> f.data]
                ELSE [ok |-> FALSE, contents |-> <<>>]

\* A text_diff that renders the difference and does not panic on it.
text_diff_silent(old, new) ==
    IF ~read_file(old).ok \/ ~read_file(new).ok THEN "open" ELSE "ok"

\* text_diff: assert_diff(read_file(old), read_file(new), "\n", 0).
\* "ok", or the panic: "open" (a file is missing) or "mismatch".
text_diff(old, new) ==
    LET o == read_file(old)
        n == read_file(new)
    IN IF ~o.ok \/ ~n.ok THEN "open"
       ELSE IF Distance(o.contents, n.contents, NL) = 0 THEN "ok"
       ELSE "mismatch"

\* binary_diff: both files read in full and compared byte for byte.
binary_diff(old, new) ==
    IF ~old.exists \/ ~new.exists THEN "open"
    ELSE IF old.data = new.data THEN "ok"
    ELSE "mismatch"

\* Calling a registered differ on two files.
CallDiffer(differ, old, new) ==
    IF differ = "text_diff" THEN text_diff(old, new) ELSE binary_diff(old, new)

----------------------------------------------------------------------------
\* The registry.

Relations == {"Original", "Temporary"}

Entry(path, differ, relation) ==
    [file |-> path, differ |-> differ, relation |-> relation]

\* A registration that pushes the entry before it validates the path.
register_push_first(fls, path, differ, relation) ==
    [err |-> ~is_relative(path),
     files |-> Append(fls, Entry(path, differ, relation)),
     abs_path |-> IF is_relative(path) THEN Join(TempRoot, path) ELSE NoLoc]

\* A registration that keeps the registry free of duplicates: a path that
\* is registered already is not pushed again.
register_unique(fls, path, differ, relation) ==
    IF ~is_relative(path)
    THEN [err |-> TRUE, files |-> fls, abs_path |-> NoLoc]
    ELSE [err |-> FALSE,
          files |-> IF \E i \in 1..Len(fls) : fls[i].file = path
                    THEN fls
                    ELSE Append(fls, Entry(path, differ, relation)),
          abs_path |-> Join(TempRoot, path)]

\* register_goldenfile_with_differ_and_relation: an absolute path is an
\* InvalidInput error; a relative one is pushed and its tempdir path returned.
register_goldenfile_with_differ_and_relation(fls, path, differ, relation) ==
    IF ~is_relative(path)
    THEN [err |-> TRUE, files |-> fls, abs_path |-> NoLoc]
    ELSE [err |-> FALSE,
          files |-> Append(fls, Entry(path, differ, relation)),
          abs_path |-> Join(TempRoot, path)]

\* A pop that leaves the registry as it is.
pop_kept(fls) == fls

\* Vec::pop on the registry.
Pop(fls) == IF Len(fls) = 0 THEN fls ELSE SubSeq(fls, 1, Len(fls) - 1)

\* fs::create_dir_all below the tempdir: the directory and its ancestors.
CreateDirAll(dirs, d) == dirs \cup {SubSeq(d, 1, k) : k \in 0..Len(d)}

----------------------------------------------------------------------------
\* The teardown passes.

\* fs::copy(from, to): fails when from is missing or to has no directory;
\* otherwise to holds the content of from.
fs_copy(f, dirs, from, to) ==
    IF f[from].exists /\ DirExists(dirs, to)
    THEN [fs |-> [f EXCEPT ![to] = f[from]], ok |-> TRUE]
    ELSE [fs |-> f, ok |-> FALSE]

\* An fs::remove_file that leaves the file in place.
fs_remove_file_kept(f, loc) == f

\* fs::remove_file of an existing file.
fs_remove_file(f, loc) == [f EXCEPT ![loc] = Absent]

\* An overwrite_file that moves: the source is gone once it was copied.
overwrite_file_move(f, dirs, dest, source, ce) ==
    IF ~f[source].exists
    THEN [fs |-> f, ok |-> FALSE]
    ELSE IF ce \/ Len(f[source].data) # 0
    THEN [fs |-> fs_remove_file(fs_copy(f, dirs, source, dest).fs, source),
          ok |-> fs_copy(f, dirs, source, dest).ok]
    ELSE IF f[dest].exists
    THEN [fs |-> fs_remove_file(f, dest), ok |-> TRUE]
    ELSE [fs |-> f, ok |-> TRUE]

\* overwrite_file(dest, source, create_empty): the file system after it, and
\* whether it returned (ok) or panicked.
overwrite_file(f, dirs, dest, source, ce) ==
    IF ~f[source].exists
    THEN [fs |-> f, ok |-> FALSE]
    ELSE IF ce \/ Len(f[source].data) # 0
    THEN fs_copy(f, dirs, source, dest)
    ELSE IF f[dest].exists
    THEN [fs |-> fs_remove_file(f, dest), ok |-> TRUE]
    ELSE [fs |-> f, ok |-> TRUE]

\* The (golden, new) pair of an entry in check_goldenfiles.
check_pair(e) ==
    LET orig == Join(GoldenRoot, e.file)
        temp == Join(TempRoot, e.file)
    IN IF e.relation = "Original"
       THEN [golden |-> orig, new |-> temp]
       ELSE [golden |-> temp, new |-> orig]

\* An update pass whose golden side is the goldenfile path for both relations.
update_pair_golden_root(e) ==
    [golden |-> Join(GoldenRoot, e.file), new |-> Join(TempRoot, e.file)]

\* The (golden, new) pair of an entry in update_goldenfiles.
update_pair(e) ==
    LET orig == Join(GoldenRoot, e.file)
        temp == Join(TempRoot, e.file)
    IN IF e.relation = "Original"
       THEN [golden |-> orig, new |-> temp]
       ELSE [golden |-> temp, new |-> orig]

\* A guard that regenerates the goldenfile of the failing entry from the
\* tempdir file, whatever the relation.
on_unwind_regenerate(f, dirs, e, ce) ==
    overwrite_file(f, dirs, Join(GoldenRoot, e.file), Join(TempRoot, e.file), ce)

\* What the guard of defer_on_unwind does when the differ of entry e
\* panicked: for a Temporary entry, overwrite_file(new, golden).
on_unwind(f, dirs, e, ce) ==
    IF e.relation = "Temporary"
    THEN overwrite_file(f, dirs, check_pair(e).new, check_pair(e).golden, ce)
    ELSE [fs |-> f, ok |-> TRUE]

\* A check_goldenfiles whose guard is a plain defer: it runs when the differ
\* returns as well.
RECURSIVE check_from_defer(_, _, _, _, _)
check_from_defer(f, dirs, fls, ce, i) ==
    IF i > Len(fls)
    THEN [fs |-> f, res |-> "ok", kind |-> "ok", invoked |-> i - 1, at |-> 0]
    ELSE LET e == fls[i]
             d == CallDiffer(e.differ, f[check_pair(e).golden], f[check_pair(e).new])
             g == on_unwind(f, dirs, e, ce)
         IN IF d = "ok" /\ g.ok
            THEN check_from_defer(g.fs, dirs, fls, ce, i + 1)
            ELSE [fs |-> g.fs, res |-> IF g.ok THEN "panic" ELSE "abort",
                  kind |-> d, invoked |-> i, at |-> i]

\* A check_goldenfiles that goes on to the remaining entries after a differ
\* panicked, running the guard of every entry that fails.
RECURSIVE check_from_continue(_, _, _, _, _)
check_from_continue(f, dirs, fls, ce, i) ==
    IF i > Len(fls)
    THEN [fs |-> f, res |-> "ok", kind |-> "ok", invoked |-> i - 1, at |-> 0]
    ELSE LET e == fls[i]
             d == CallDiffer(e.differ, f[check_pair(e).golden], f[check_pair(e).new])
             g == on_unwind(f, dirs, e, ce)
             rest == check_from_continue(IF d = "ok" THEN f ELSE g.fs,
                                         dirs, fls, ce, i + 1)
         IN IF d = "ok"
            THEN rest
            ELSE [fs |-> rest.fs, res |-> IF g.ok THEN "panic" ELSE "abort",
                  kind |-> d, invoked |-> rest.invoked, at |-> i]

\* check_goldenfiles from entry i on.  res is "ok", "panic" (a differ
\* panicked and the panic propagates) or "abort" (the guard panicked while
\* unwinding); kind is the differ's panic; invoked counts the differ calls;
\* at is the entry that failed.
RECURSIVE check_from(_, _, _, _, _)
check_from(f, dirs, fls, ce, i) ==
    IF i > Len(fls)
    THEN [fs |-> f, res |-> "ok", kind |-> "ok", invoked |-> i - 1, at |-> 0]
    ELSE LET e == fls[i]
             d == CallDiffer(e.differ, f[check_pair(e).golden], f[check_pair(e).new])
             g == on_unwind(f, dirs, e, ce)
         IN IF d = "ok"
            THEN check_from(f, dirs, fls, ce, i + 1)
            ELSE [fs |-> g.fs, res |-> IF g.ok THEN "panic" ELSE "abort",
                  kind |-> d, invoked |-> i, at |-> i]

check_goldenfiles(f, dirs, fls, ce) == check_from(f, dirs, fls, ce, 1)

\* update_goldenfiles from entry i on.  No differ is called.
RECURSIVE update_from(_, _, _, _, _)
update_from(f, dirs, fls, ce, i) ==
    IF i > Len(fls)
    THEN [fs |-> f, res |-> "ok", kind |-> "ok", invoked |-> 0, at |-> 0]
    ELSE LET e == fls[i]
             r == overwrite_file(f, dirs, update_pair(e).golden, update_pair(e).new, ce)
         IN IF r.ok
            THEN update_from(r.fs, dirs, fls, ce, i + 1)
            ELSE [fs |-> f, res |-> "panic", kind |-> "copy", invoked |-> 0, at |-> i]

update_goldenfiles(f, dirs, fls, ce) == update_from(f, dirs, fls, ce, 1)

\* env::var: Ok(value) or Err(NotPresent).
NotPresent == [ok |-> FALSE, val |-> ""]
EnvVals == {NotPresent, [ok |-> TRUE, val |-> "1"], [ok |-> TRUE, val |-> "true"]}

\* A Drop that reads the current key only.
update_mode_current_only(legacy, update) == update.ok /\ update.val = "1"

\* The condition of Drop under which the update pass runs.
update_mode(legacy, update) ==
    (legacy.ok /\ legacy.val = "1") \/ (update.ok /\ update.val = "1")

\* A Drop that runs its pass on a panicking thread too.
drop_pass_always(unwinding, legacy, update) ==
    IF update_mode(legacy, update) THEN "update" ELSE "check"

\* The pass Drop runs: none on a panicking thread, else the update pass
\* under the update condition and the verify pass otherwise.
drop_pass(unwinding, legacy, update) ==
    IF unwinding THEN "none"
    ELSE IF update_mode(legacy, update) THEN "update"
    ELSE "check"

\* A TempDir that is forgotten: its files stay behind.
remove_tempdir_kept(f) == f

\* TempDir's destructor: the tempdir and everything below it is removed.
remove_tempdir(f) == [l \in Locs |-> IF l[1] = TempRoot THEN Absent ELSE f[l]]

----------------------------------------------------------------------------
\* The state after Mint::new (create_empty) or Mint::new_nonempty: an empty
\* registry, a fresh empty tempdir, any goldenfiles on disk.

Call(op, path, res, ret) ==
    [op |-> op, path |-> path, res |-> res, ret |-> ret,
     pass |-> "none", kind |-> "ok", invoked |-> 0, at |-> 0]

PassCall(op, pass, r) ==
    [op |-> op, path |-> NoPath, res |-> r.res, ret |-> NoLoc,
     pass |-> pass, kind |-> r.kind, invoked |-> r.invoked, at |-> r.at]

Init ==
    /\ fs \in [Locs -> FileStates]
    /\ \A l \in Locs : l[1] = TempRoot => fs[l] = Absent
    /\ tempdirs = {<<>>}
    /\ files = <<>>
    /\ create_empty \in BOOLEAN
    /\ moved = [p \in RelPaths |-> Absent]
    /\ panicking = FALSE
    /\ pc = "live"
    /\ legacy_var = NotPresent
    /\ update_var = NotPresent
    /\ last = Call("new", NoPath, "ok", NoLoc)

\* The test body runs: the Mint is in scope and the thread is not unwinding.
Running == pc = "live" /\ ~panicking

----------------------------------------------------------------------------
\* Registration.  Each method is given the paths P the test may pass; the
\* methods that create or remove a file are given the outcomes C of
\* File::create and R of fs::remove_file (TRUE: it succeeds).

\* register_goldenfile_with_differ, called as op.
Register(op, path, differ) ==
    LET r == register_goldenfile_with_differ_and_relation(files, path, differ, "Original")
    IN /\ Running
       /\ r.err \/ Len(files) < MaxFiles
       /\ files' = r.files
       /\ last' = Call(op, path, IF r.err THEN "InvalidInput" ELSE "ok", r.abs_path)
       /\ UNCHANGED <<fs, tempdirs, create_empty, moved, panicking, pc,
                      legacy_var, update_var>>

register_goldenfile_with_differ(P) ==
    \E path \in P, differ \in GivenDiffers :
        Register("register_goldenfile_with_differ", path, differ)

register_goldenfile(P) ==
    \E path \in P :
        Register("register_goldenfile", path, get_differ_for_path(path))

\* new_goldenfile_with_differ, called as op; created says whether
\* File::create succeeds.
NewGoldenfile(op, path, differ, created) ==
    LET r == register_goldenfile_with_differ_and_relation(files, path, differ, "Original")
        abs_path == r.abs_path
        dirs == IF Parent(abs_path) # <<>>
                THEN CreateDirAll(tempdirs, Parent(abs_path))
                ELSE tempdirs
    IN /\ Running
       /\ r.err \/ Len(files) < MaxFiles
       /\ IF r.err
          THEN /\ last' = Call(op, path, "InvalidInput", NoLoc)
               /\ UNCHANGED <<fs, tempdirs, files>>
          ELSE /\ tempdirs' = dirs
               /\ IF created
                  THEN /\ fs' = [fs EXCEPT ![abs_path] = FileOf(<<>>)]
                       /\ files' = r.files
                       /\ last' = Call(op, path, "ok", abs_path)
                  ELSE /\ fs' = fs
                       /\ files' = Pop(r.files)
                       /\ last' = Call(op, path, "IoError", NoLoc)
       /\ UNCHANGED <<create_empty, moved, panicking, pc, legacy_var, update_var>>

new_goldenfile_with_differ(P, C) ==
    \E path \in P, differ \in GivenDiffers, created \in C :
        NewGoldenfile("new_goldenfile_with_differ", path, differ, created)

new_goldenfile(P, C) ==
    \E path \in P, created \in C :
        NewGoldenfile("new_goldenfile", path, get_differ_for_path(path), created)

\* move_goldenfile_with_differ, called as op; removed says whether
\* fs::remove_file succeeds.  fs::copy fails when the goldenfile is missing
\* or the tempdir has no directory for the copy.
MoveGoldenfile(op, path, differ, removed) ==
    LET gold == Join(GoldenRoot, path)
        r == register_goldenfile_with_differ_and_relation(files, path, differ, "Temporary")
        temp == r.abs_path
        c == fs_copy(fs, tempdirs, gold, temp)
    IN /\ Running
       /\ r.err \/ Len(files) < MaxFiles
       /\ IF r.err
          THEN /\ last' = Call(op, path, "InvalidInput", NoLoc)
               /\ UNCHANGED <<fs, files, moved>>
          ELSE /\ files' = r.files
               /\ IF ~c.ok
                  THEN /\ last' = Call(op, path, "IoError", NoLoc)
                       /\ UNCHANGED <<fs, moved>>
                  ELSE IF ~removed
                  THEN /\ fs' = c.fs
                       /\ last' = Call(op, path, "IoError", NoLoc)
                       /\ UNCHANGED moved
                  ELSE /\ fs' = fs_remove_file(c.fs, gold)
                       /\ moved' = [moved EXCEPT ![path] = fs[gold]]
                       /\ last' = Call(op, path, "ok", gold)
       /\ UNCHANGED <<tempdirs, create_empty, panicking, pc, legacy_var, update_var>>

move_goldenfile_with_differ(P, R) ==
    \E path \in P, differ \in GivenDiffers, removed \in R :
        MoveGoldenfile("move_goldenfile_with_differ", path, differ, removed)

move_goldenfile(P, R) ==
    \E path \in P, removed \in R :
        MoveGoldenfile("move_goldenfile", path, get_differ_for_path(path), removed)

----------------------------------------------------------------------------
\* The test body.

Registered(path, relation) ==
    \E i \in 1..Len(files) : files[i].file = path /\ files[i].relation = relation

\* The test writes its output: at the tempdir path of an Original entry, or
\* at the goldenfile path a move vacated.
TestWrite ==
    \E path \in RelPaths, c \in Contents :
        LET loc == IF Registered(path, "Original")
                   THEN Join(TempRoot, path)
                   ELSE Join(GoldenRoot, path)
        IN /\ Running
           /\ Registered(path, "Original") \/ Registered(path, "Temporary")
           /\ DirExists(tempdirs, loc)
           /\ fs[loc] # FileOf(c)
           /\ fs' = [fs EXCEPT ![loc] = FileOf(c)]
           /\ last' = Call("write", path, "ok", loc)
           /\ UNCHANGED <<tempdirs, files, create_empty, moved, panicking, pc,
                          legacy_var, update_var>>

\* The test creates the directory of a path it registered.
TestMkdir ==
    \E path \in RelPaths :
        /\ Running
        /\ Registered(path, "Original")
        /\ path.dirs \notin tempdirs
        /\ tempdirs' = CreateDirAll(tempdirs, path.dirs)
        /\ last' = Call("mkdir", path, "ok", NoLoc)
        /\ UNCHANGED <<fs, files, create_empty, moved, panicking, pc,
                       legacy_var, update_var>>

\* The test fails for a reason of its own: the thread starts unwinding.
TestPanic ==
    /\ Running
    /\ panicking' = TRUE
    /\ last' = Call("panic", NoPath, "panic", NoLoc)
    /\ UNCHANGED <<fs, tempdirs, files, create_empty, moved, pc,
                   legacy_var, update_var>>

----------------------------------------------------------------------------
\* The passes, called by the test and by Drop.

\* The state a pass leaves: its panic starts the unwinding, a panic of the
\* unwinding guard aborts the process.
AfterPass(r) ==
    /\ fs' = r.fs
    /\ panicking' = (r.res # "ok")
    /\ pc' = IF r.res = "abort" THEN "aborted" ELSE pc

CallCheck ==
    LET r == check_goldenfiles(fs, tempdirs, files, create_empty)
    IN /\ Running
       /\ AfterPass(r)
       /\ last' = PassCall("check_goldenfiles", "check", r)
       /\ UNCHANGED <<tempdirs, files, create_empty, moved, legacy_var, update_var>>

CallUpdate ==
    LET r == update_goldenfiles(fs, tempdirs, files, create_empty)
    IN /\ Running
       /\ AfterPass(r)
       /\ last' = PassCall("update_goldenfiles", "update", r)
       /\ UNCHANGED <<tempdirs, files, create_empty, moved, legacy_var, update_var>>

\* Drop for Mint, then the drop of its fields: the TempDir removes the
\* tempdir, unless the process aborted.  The two variables hold any value;
\* a panicking thread returns before it reads them.
Drop ==
    \E legacy \in EnvVals, update \in EnvVals :
        LET pass == drop_pass(panicking, legacy, update)
            r == IF pass = "update"
                 THEN update_goldenfiles(fs, tempdirs, files, create_empty)
                 ELSE IF pass = "check"
                 THEN check_goldenfiles(fs, tempdirs, files, create_empty)
                 ELSE [fs |-> fs, res |-> "ok", kind |-> "ok", invoked |-> 0, at |-> 0]
        IN /\ pc = "live"
           /\ legacy_var' = legacy
           /\ update_var' = update
           /\ last' = PassCall("drop", pass, r)
           /\ panicking' = (panicking \/ r.res # "ok")
           /\ IF r.res = "abort"
              THEN /\ pc' = "aborted"
                   /\ fs' = r.fs
                   /\ UNCHANGED tempdirs
              ELSE /\ pc' = "dropped"
                   /\ fs' = remove_tempdir(r.fs)
                   /\ tempdirs' = {}
           /\ UNCHANGED <<files, create_empty, moved>>

\* The test body and the end of the Mint's scope.
TestAndDrop ==
    \/ TestWrite
    \/ TestMkdir
    \/ TestPanic
    \/ CallCheck
    \/ CallUpdate
    \/ Drop

\* The test registers relative paths, and File::create and fs::remove_file
\* succeed; fs::copy fails as the file system dictates.
Next ==
    \/ register_goldenfile(RelPaths)
    \/ register_goldenfile_with_differ(RelPaths)
    \/ new_goldenfile(RelPaths, {TRUE})
    \/ new_goldenfile_with_differ(RelPaths, {TRUE})
    \/ move_goldenfile(RelPaths, {TRUE})
    \/ move_goldenfile_with_differ(RelPaths, {TRUE})
    \/ TestAndDrop

Spec == Init /\ [][Next]_vars

\* The test also passes an absolute path.
NextAbs ==
    \/ register_goldenfile(Paths)
    \/ register_goldenfile_with_differ(Paths)
    \/ new_goldenfile(Paths, {TRUE})
    \/ new_goldenfile_with_differ(Paths, {TRUE})
    \/ move_goldenfile(Paths, {TRUE})
    \/ move_goldenfile_with_differ(Paths, {TRUE})
    \/ TestAndDrop

SpecAbs == Init /\ [][NextAbs]_vars

\* File::create and fs::remove_file may also fail.
NextFaults ==
    \/ register_goldenfile(RelPaths)
    \/ register_goldenfile_with_differ(RelPaths)
    \/ new_goldenfile(RelPaths, BOOLEAN)
    \/ new_goldenfile_with_differ(RelPaths, BOOLEAN)
    \/ move_goldenfile(RelPaths, BOOLEAN)
    \/ move_goldenfile_with_differ(RelPaths, BOOLEAN)
    \/ TestAndDrop

SpecFaults == Init /\ [][NextFaults]_vars

----------------------------------------------------------------------------
\* The claims.  A step into a state whose `last` names a call is a step of
\* that call: unprimed variables are the state before it, primed ones the
\* state after it.

OrigOf(path) == Join(GoldenRoot, path)
TempOf(path) == Join(TempRoot, path)

IsOriginal(e) == e.relation = "Original"
IsTemporary(e) == e.relation = "Temporary"
AllOriginal(fls) == \A i \in 1..Len(fls) : IsOriginal(fls[i])

\* The goldenfile and the tempdir file of a path both exist and hold the
\* same content.
SameContent(f, path) ==
    /\ f[OrigOf(path)].exists
    /\ f[TempOf(path)].exists
    /\ f[OrigOf(path)].data = f[TempOf(path)].data

\* C1: in the verify pass an Original entry that is compared succeeds if and
\* only if its goldenfile and its candidate hold the same content; when both
\* exist and differ the pass panics with a content mismatch, and the panic
\* propagates; a pass over a registry of Original entries succeeds if and
\* only if every entry's golden content equals its candidate content.
C1_VerifyOriginal ==
    [][ last'.pass = "check" =>
          /\ \A j \in 1..last'.invoked :
                IsOriginal(files[j]) =>
                    ((j = last'.at) <=> ~SameContent(fs, files[j].file))
          /\ AllOriginal(files) =>
                /\ (last'.res = "ok") <=>
                       (\A i \in 1..Len(files) : SameContent(fs, files[i].file))
                /\ last'.res \in {"ok", "panic"}
          /\ (last'.at > 0 /\ IsOriginal(files[last'.at])) =>
                /\ last'.res = "panic"
                /\ panicking'
                /\ ( /\ fs[OrigOf(files[last'.at].file)].exists
                     /\ fs[TempOf(files[last'.at].file)].exists )
                   => last'.kind = "mismatch"
      ]_vars

\* C1's case: a verify pass over two Original entries, the first equal, the
\* second a content mismatch.
C1_Witness ==
    /\ last.op = "check_goldenfiles"
    /\ Len(files) = 2
    /\ AllOriginal(files)
    /\ last.res = "panic"
    /\ last.kind = "mismatch"
    /\ last.at = 2
    /\ SameContent(fs, files[1].file)
    /\ fs[OrigOf(files[2].file)].exists
    /\ fs[TempOf(files[2].file)].exists

IsOne(v) == v.ok /\ v.val = "1"

\* C2: when a Mint whose thread is not panicking goes out of scope exactly
\* one pass runs: the update pass if and only if REGENERATE_GOLDENFILES or
\* UPDATE_GOLDENFILES is exactly "1", the verify pass otherwise; the update
\* pass calls no differ, so no content difference fails it.
C2_OnePass ==
    [][ (last'.op = "drop" /\ ~panicking) =>
          /\ last'.pass \in {"update", "check"}
          /\ (last'.pass = "update") <=> (IsOne(legacy_var') \/ IsOne(update_var'))
          /\ last'.pass = "update" =>
                /\ last'.invoked = 0
                /\ last'.kind \notin {"mismatch", "open"}
      ]_vars

\* C2's case: the legacy key alone is "1", the current key holds another
\* value, and the update pass ran over a registered entry.
C2_Witness ==
    /\ last.op = "drop"
    /\ last.pass = "update"
    /\ last.res = "ok"
    /\ IsOne(legacy_var)
    /\ update_var.ok /\ update_var.val = "true"
    /\ Len(files) > 0
    /\ pc = "dropped"

\* What overwrite_file leaves at its destination for an existing source.
AfterPolicy(ce, source) ==
    IF ce \/ Len(source.data) # 0 THEN source ELSE Absent

\* Every entry of path has the given relation, and there is one.
OnlyAs(fls, path, relation) ==
    /\ \E i \in 1..Len(fls) : fls[i].file = path
    /\ \A i \in 1..Len(fls) : fls[i].file = path => fls[i].relation = relation

\* The path is registered exactly once.
Once(fls, path) == Cardinality({i \in 1..Len(fls) : fls[i].file = path}) = 1

\* C3 as stated: after an update pass that returns, for every entry of
\* either relation whose tempdir file exists (for a Temporary entry: holds
\* the moved content), the goldenfile holds what the tempdir file held
\* (subject to the empty-file policy) and the tempdir file is as it was.
C3_AsStated ==
    [][ (last'.op = "update_goldenfiles" /\ last'.res = "ok") =>
          \A i \in 1..Len(files) :
              ( /\ Once(files, files[i].file)
                /\ fs[TempOf(files[i].file)].exists
                /\ IsTemporary(files[i]) =>
                       fs[TempOf(files[i].file)] = moved[files[i].file] )
              =>  /\ fs'[TempOf(files[i].file)] = fs[TempOf(files[i].file)]
                  /\ fs'[OrigOf(files[i].file)] =
                         AfterPolicy(create_empty, fs[TempOf(files[i].file)])
      ]_vars

\* C3 amended: the update pass overwrites the goldenfile path from the
\* tempdir path for Original entries only; for a Temporary entry the roles
\* are swapped.  After a pass that returns, a path registered only as
\* Original has its goldenfile equal to what the tempdir file held (subject
\* to the empty-file policy) and its tempdir file unchanged; a path
\* registered only as Temporary has its goldenfile unchanged and its tempdir
\* file equal to what the goldenfile held (subject to the same policy).
C3_UpdateDirection ==
    [][ (last'.pass = "update" /\ last'.res = "ok") =>
          \A p \in RelPaths :
              /\ OnlyAs(files, p, "Original") =>
                    /\ fs'[OrigOf(p)] = AfterPolicy(create_empty, fs[TempOf(p)])
                    /\ last'.op = "update_goldenfiles" =>
                           fs'[TempOf(p)] = fs[TempOf(p)]
              /\ OnlyAs(files, p, "Temporary") =>
                    /\ fs'[OrigOf(p)] = fs[OrigOf(p)]
                    /\ last'.op = "update_goldenfiles" =>
                           fs'[TempOf(p)] = AfterPolicy(create_empty, fs[OrigOf(p)])
      ]_vars

\* C3's case: an update pass returned over a moved goldenfile that the test
\* had recreated with other content: the tempdir copy now holds the
\* recreated content, not the content that was moved.
C3_Witness ==
    /\ last.op = "update_goldenfiles"
    /\ last.res = "ok"
    /\ \E p \in RelPaths :
          /\ OnlyAs(files, p, "Temporary")
          /\ moved[p].exists
          /\ fs[OrigOf(p)].exists
          /\ fs[TempOf(p)] = fs[OrigOf(p)]
          /\ fs[TempOf(p)] # moved[p]

\* The candidate of an entry: the tempdir file of an Original entry, the
\* recreated goldenfile of a Temporary one.
Candidate(f, e) ==
    IF IsOriginal(e) THEN f[TempOf(e.file)] ELSE f[OrigOf(e.file)]

\* The move that registered a Temporary entry returned Ok, and the tempdir
\* still holds the content it moved.
MovedIntact(f, e) ==
    IsTemporary(e) => (moved[e.file].exists /\ f[TempOf(e.file)] = moved[e.file])

\* C4 as stated (for paths registered once, moves that returned Ok): after
\* an update pass that returns, an entry whose candidate has zero length has
\* no goldenfile when create_empty is false and a zero-length goldenfile
\* when it is true; a candidate of non-zero length is the goldenfile.
C4_EmptyPolicy ==
    [][ (last'.pass = "update" /\ last'.res = "ok") =>
          \A i \in 1..Len(files) :
              (Once(files, files[i].file) /\ MovedIntact(fs, files[i])) =>
                  IF Len(Candidate(fs, files[i]).data) = 0
                  THEN IF create_empty
                       THEN fs'[OrigOf(files[i].file)] = FileOf(<<>>)
                       ELSE ~fs'[OrigOf(files[i].file)].exists
                  ELSE fs'[OrigOf(files[i].file)] = Candidate(fs, files[i])
      ]_vars

\* C5 as stated: a verify pass that follows an update pass immediately, the
\* candidates unchanged, succeeds.
C5_RoundTrip ==
    [][ ( /\ last.op = "update_goldenfiles"
          /\ last.res = "ok"
          /\ last'.op = "check_goldenfiles" )
        => last'.res = "ok"
      ]_vars

\* C6 as stated: when the Mint is dropped while the test is already
\* unwinding, every moved (non-empty) goldenfile is back at its goldenfile
\* path.
C6_PanicSafety ==
    [][ (last.op = "panic" /\ last'.op = "drop") =>
          \A i \in 1..Len(files) :
              ( /\ IsTemporary(files[i])
                /\ MovedIntact(fs, files[i])
                /\ Len(moved[files[i].file].data) > 0 )
              => fs'[OrigOf(files[i].file)].exists
      ]_vars

\* C7 as stated (for moved content of non-zero length, with create_empty
\* set, so that the empty-file policy plays no part): when the verify pass
\* ends in a content mismatch, every moved goldenfile of the registry is at
\* its goldenfile path with the content that was moved.
C7_Reconcile ==
    [][ ( /\ last'.pass = "check"
          /\ last'.res = "panic"
          /\ last'.kind = "mismatch"
          /\ create_empty )
        => \A i \in 1..Len(files) :
              ( /\ IsTemporary(files[i])
                /\ MovedIntact(fs, files[i])
                /\ Len(moved[files[i].file].data) > 0 )
              => fs'[OrigOf(files[i].file)] = moved[files[i].file]
      ]_vars

MoveOps == {"move_goldenfile", "move_goldenfile_with_differ"}
RegisterOps ==
    MoveOps \cup {"register_goldenfile", "register_goldenfile_with_differ",
                  "new_goldenfile", "new_goldenfile_with_differ"}

\* C8: a move that returns Ok found a goldenfile at the path; afterwards the
\* goldenfile path holds no file, the tempdir path holds exactly the content
\* the goldenfile had, one Temporary entry for the path was appended to the
\* registry, and the returned path is the goldenfile path.
C8_MoveGoldenfile ==
    [][ (last'.op \in MoveOps /\ last'.res = "ok") =>
          LET p == last'.path IN
          /\ fs[OrigOf(p)].exists
          /\ ~fs'[OrigOf(p)].exists
          /\ fs'[TempOf(p)] = fs[OrigOf(p)]
          /\ \A l \in Locs : l[2] # p => fs'[l] = fs[l]
          /\ Len(files') = Len(files) + 1
          /\ SubSeq(files', 1, Len(files)) = files
          /\ files'[Len(files')].file = p
          /\ IsTemporary(files'[Len(files')])
          /\ last'.ret = OrigOf(p)
      ]_vars

\* C8's case: a move of a non-empty goldenfile returned Ok behind an
\* earlier entry.
C8_Witness ==
    /\ last.op = "move_goldenfile"
    /\ last.res = "ok"
    /\ Len(files) = 2
    /\ fs[TempOf(last.path)] = FileOf(<<"a", NL>>)
    /\ ~fs[OrigOf(last.path)].exists

\* Every entry is a moved goldenfile whose moved content is in the tempdir
\* and which the test has recreated with that content.
AllRecreated ==
    /\ Len(files) > 0
    /\ \A i \in 1..Len(files) :
          /\ IsTemporary(files[i])
          /\ moved[files[i].file].exists
          /\ fs[TempOf(files[i].file)] = moved[files[i].file]
          /\ fs[OrigOf(files[i].file)] = moved[files[i].file]

\* C9: right after a move that returns Ok the goldenfile path holds no
\* file; when the test has written the moved content back to the returned
\* path and neither variable is "1", the verify pass of Drop succeeds and
\* the goldenfile path holds the moved content after the Mint is gone.
C9_MovedLifetime ==
    [][ /\ (last'.op \in MoveOps /\ last'.res = "ok") =>
              ~fs'[OrigOf(last'.path)].exists
        /\ ( /\ last'.op = "drop"
             /\ ~panicking
             /\ ~IsOne(legacy_var')
             /\ ~IsOne(update_var')
             /\ AllRecreated )
           => /\ last'.pass = "check"
              /\ last'.res = "ok"
              /\ ~panicking'
              /\ pc' = "dropped"
              /\ \A i \in 1..Len(files) :
                    fs'[OrigOf(files[i].file)] = moved[files[i].file]
      ]_vars

\* C9's case: the Mint is gone after a successful verify pass with both
\* variables unset, and a moved non-empty goldenfile is back in place.
C9_Witness ==
    /\ pc = "dropped"
    /\ last.op = "drop"
    /\ last.pass = "check"
    /\ last.res = "ok"
    /\ legacy_var = NotPresent
    /\ update_var = NotPresent
    /\ Len(files) > 0
    /\ \A i \in 1..Len(files) :
          /\ IsTemporary(files[i])
          /\ moved[files[i].file] = FileOf(<<"a", NL>>)
          /\ fs[OrigOf(files[i].file)] = moved[files[i].file]

\* C10: a registration method called with an absolute path returns the
\* InvalidInput error without panicking, adds no entry and changes no file
\* or directory.
C10_AbsolutePath ==
    [][ last'.path.root =>
          /\ last'.op \in RegisterOps
          /\ last'.res = "InvalidInput"
          /\ last'.ret = NoLoc
          /\ files' = files
          /\ fs' = fs
          /\ tempdirs' = tempdirs
          /\ moved' = moved
          /\ ~panicking'
          /\ pc' = pc
      ]_vars

\* C10's case: a move called with an absolute path returned InvalidInput
\* while an entry was registered.
C10_Witness ==
    /\ last.op = "move_goldenfile_with_differ"
    /\ last.path = PathAbs
    /\ last.res = "InvalidInput"
    /\ Len(files) = 1

NewOps == {"new_goldenfile", "new_goldenfile_with_differ"}

\* C11: when File::create fails in new_goldenfile / new_goldenfile_with_differ
\* the entry the call pushed is popped again: the call returns the error
\* without panicking, the registry is the sequence it was before the call,
\* no file changed, and so a pass that follows visits the entries of the
\* earlier registry only.
C11_CreateRollback ==
    [][ (last'.op \in NewOps /\ last'.res = "IoError") =>
          /\ files' = files
          /\ fs' = fs
          /\ last'.ret = NoLoc
          /\ ~panicking'
          /\ pc' = pc
          /\ check_goldenfiles(fs', tempdirs', files', create_empty').invoked
                 <= Len(files)
      ]_vars

\* C11's case: File::create failed for a path with a parent directory while
\* another entry was registered; the directory was created, the registry
\* still holds the earlier entry alone.
C11_Witness ==
    /\ last.op = "new_goldenfile"
    /\ last.res = "IoError"
    /\ last.path = PathB
    /\ Len(files) = 1
    /\ files[1].file = PathA
    /\ <<"sub">> \in tempdirs

\* The number of entries a pass visited: all of them when it returned, the
\* entries up to the failing one otherwise.
Visited(l, fls) == IF l.res = "ok" THEN Len(fls) ELSE l.at

\* Every entry of path p, if any, comes after entry k.
OnlyAfter(fls, p, k) == \A i \in 1..Len(fls) : fls[i].file = p => i > k

\* C12 as stated: every pass visits every entry, whether or not a comparison
\* fails, and no pass follows a pass that already visited the entries.
C12_AsStated ==
    [][ last'.pass # "none" =>
          /\ Visited(last', files) = Len(files)
          /\ Len(files) > 0 => last.pass = "none"
      ]_vars

\* C12 amended: a pass walks the registry once, in order.  A pass that
\* returns visited every entry once (the verify pass called one differ per
\* entry); a pass that fails stopped at its failing entry: the verify pass
\* called the differ for the entries up to it and touched no file of another
\* path, the update pass left the goldenfile of every path registered only
\* after it as it was.  Drop runs one pass at most and ends the Mint; a pass
\* called by the test is a further pass over the same entries.
C12_PassVisits ==
    [][ /\ pc = "live"
        /\ last'.op = "drop" => pc' # "live"
        /\ last'.pass # "none" =>
              /\ ~panicking
              /\ last'.res = "ok" =>
                    /\ last'.at = 0
                    /\ last'.pass = "check" => last'.invoked = Len(files)
              /\ last'.res # "ok" =>
                    /\ last'.at \in 1..Len(files)
                    /\ last'.pass = "check" =>
                          /\ last'.invoked = last'.at
                          /\ \A p \in RelPaths \ {files[last'.at].file} :
                                /\ fs'[OrigOf(p)] = fs[OrigOf(p)]
                                /\ last'.op = "check_goldenfiles" =>
                                       fs'[TempOf(p)] = fs[TempOf(p)]
                    /\ last'.pass = "update" =>
                          \A p \in RelPaths :
                              OnlyAfter(files, p, last'.at) =>
                                  fs'[OrigOf(p)] = fs[OrigOf(p)]
      ]_vars

\* C12's case: a verify pass failed at the first of two entries; the second,
\* a moved goldenfile that the test had not recreated, was not visited and
\* is still missing.
C12_Witness ==
    /\ last.op = "check_goldenfiles"
    /\ last.res = "panic"
    /\ Len(files) = 2
    /\ last.at = 1
    /\ last.invoked = 1
    /\ IsTemporary(files[2])
    /\ files[2].file # files[1].file
    /\ moved[files[2].file].exists
    /\ ~fs[OrigOf(files[2].file)].exists

\* The files of the golden root.
GoldenRootOf(f) == [p \in RelPaths |-> f[OrigOf(p)]]

\* The update pass run twice in succession from the current state: when the
\* first run returns, the second returns too and leaves the same golden root.
UpdateTwice ==
    LET first == update_goldenfiles(fs, tempdirs, files, create_empty)
        second == update_goldenfiles(first.fs, tempdirs, files, create_empty)
    IN first.res = "ok" =>
           /\ second.res = "ok"
           /\ GoldenRootOf(second.fs) = GoldenRootOf(first.fs)

\* C13: the update pass is idempotent on the golden root.  From every state
\* the test can reach (any registry, duplicates and both relations included,
\* any candidate content, either create_empty), two update passes in
\* succession leave the golden root the first one left, and the second does
\* not fail; and an update_goldenfiles call that follows one that returned
\* returns and leaves the golden root as it found it.
C13_UpdateIdempotent ==
    /\ [](Running => UpdateTwice)
    /\ [][ ( /\ last.op = "update_goldenfiles"
             /\ last.res = "ok"
             /\ last'.op = "update_goldenfiles" )
           => /\ last'.res = "ok"
              /\ GoldenRootOf(fs') = GoldenRootOf(fs)
         ]_vars

\* C13's case: an update pass returned over a path registered under both
\* relations, with create_empty unset; a second pass from here returns as
\* well and changes no file.
C13_Witness ==
    /\ last.op = "update_goldenfiles"
    /\ last.res = "ok"
    /\ ~create_empty
    /\ \E i, j \in 1..Len(files) :
          /\ files[i].file = files[j].file
          /\ IsTemporary(files[i])
          /\ IsOriginal(files[j])
    /\ update_goldenfiles(fs, tempdirs, files, create_empty).res = "ok"
    /\ update_goldenfiles(fs, tempdirs, files, create_empty).fs = fs

\* Every entry's goldenfile and candidate exist and hold the same content.
AllEqual(f, fls) == \A i \in 1..Len(fls) : SameContent(f, fls[i].file)

\* C14: a verify pass over a registry in which every entry's golden content
\* equals its candidate content returns and changes nothing: the registry
\* and the files of the golden root are as before, and so are the files and
\* directories of the tempdir when the pass returns to the test (after the
\* pass of Drop the tempdir goes with the Mint).
C14_VerifyNoChange ==
    [][ (last'.pass = "check" /\ AllEqual(fs, files)) =>
          /\ last'.res = "ok"
          /\ ~panicking'
          /\ files' = files
          /\ GoldenRootOf(fs') = GoldenRootOf(fs)
          /\ last'.op = "check_goldenfiles" =>
                 (fs' = fs /\ tempdirs' = tempdirs)
          /\ last'.op = "drop" => fs' = remove_tempdir(fs)
      ]_vars

\* C14's case: check_goldenfiles returned over an Original and a Temporary
\* entry, every goldenfile equal to its candidate, one of them non-empty.
C14_Witness ==
    /\ last.op = "check_goldenfiles"
    /\ last.res = "ok"
    /\ Len(files) = 2
    /\ IsOriginal(files[1])
    /\ IsTemporary(files[2])
    /\ AllEqual(fs, files)
    /\ \E i \in 1..2 : Len(fs[OrigOf(files[i].file)].data) > 0

\* C15: when the Mint is dropped on a thread that is already panicking,
\* Drop returns at once, whatever the two variables hold: no pass runs, no
\* differ is called, the Mint raises no panic of its own (the process is not
\* aborted), the registry and every file of the golden root are as they
\* were, and the tempdir goes with the Mint.
C15_SkipWhenPanicking ==
    [][ (last'.op = "drop" /\ panicking) =>
          /\ last'.pass = "none"
          /\ last'.invoked = 0
          /\ last'.res = "ok"
          /\ last'.kind = "ok"
          /\ pc' = "dropped"
          /\ files' = files
          /\ GoldenRootOf(fs') = GoldenRootOf(fs)
          /\ fs' = remove_tempdir(fs)
      ]_vars

\* C15's case: the thread was panicking with an Original entry registered,
\* the Mint was dropped with UPDATE_GOLDENFILES=1, and the entry's
\* goldenfile, which was missing, is still missing.
C15_Witness ==
    /\ pc = "dropped"
    /\ last.op = "drop"
    /\ last.pass = "none"
    /\ panicking
    /\ IsOne(update_var)
    /\ \E i \in 1..Len(files) :
          /\ IsOriginal(files[i])
          /\ ~fs[OrigOf(files[i].file)].exists

\* The pass Drop runs from the current state under the given variables.
PassOfDrop(legacy, update) ==
    IF drop_pass(panicking, legacy, update) = "update"
    THEN update_goldenfiles(fs, tempdirs, files, create_empty)
    ELSE IF drop_pass(panicking, legacy, update) = "check"
    THEN check_goldenfiles(fs, tempdirs, files, create_empty)
    ELSE [fs |-> fs, res |-> "ok", kind |-> "ok", invoked |-> 0, at |-> 0]

\* C16: the tempdir exists as long as the Mint is in scope; every pass runs
\* while it exists; Drop removes it after its pass has run on the files it
\* held (the golden root is what that pass left); once the Mint is gone the
\* tempdir and its files are gone, and the directories of the golden root
\* are still there.
C16_TempdirLifetime ==
    /\ [](pc = "live" => <<>> \in tempdirs)
    /\ [](pc = "dropped" =>
             /\ tempdirs = {}
             /\ \A p \in RelPaths :
                   /\ ~fs[TempOf(p)].exists
                   /\ ~DirExists(tempdirs, TempOf(p))
                   /\ DirExists(tempdirs, OrigOf(p)))
    /\ [][ /\ last'.pass # "none" => (pc = "live" /\ <<>> \in tempdirs)
           /\ tempdirs' # tempdirs => (<<>> \in tempdirs' \/ last'.op = "drop")
           /\ (last'.op = "drop" /\ pc' = "dropped") =>
                 /\ last'.res = PassOfDrop(legacy_var', update_var').res
                 /\ fs' = remove_tempdir(PassOfDrop(legacy_var', update_var').fs)
         ]_vars

\* C16's case: the verify pass of Drop returned over an Original entry, so
\* it read the entry's tempdir file, and the tempdir is gone afterwards
\* while the goldenfile is in place.
C16_Witness ==
    /\ pc = "dropped"
    /\ last.op = "drop"
    /\ last.pass = "check"
    /\ last.res = "ok"
    /\ Len(files) > 0
    /\ IsOriginal(files[1])
    /\ Len(fs[OrigOf(files[1].file)].data) > 0
    /\ tempdirs = {}
    /\ ~fs[TempOf(files[1].file)].exists

\* C17 as stated: a move that returns an error (the goldenfile is missing,
\* or the copy or the delete failed) leaves the registry as it was before
\* the call and the goldenfile, if there was one, in place with its content.
C17_MoveRollback ==
    [][ (last'.op \in MoveOps /\ last'.res = "IoError") =>
          /\ files' = files
          /\ fs[OrigOf(last'.path)].exists =>
                 fs'[OrigOf(last'.path)] = fs[OrigOf(last'.path)]
      ]_vars

\* C18 as stated: for every relative path, with or without parent
\* directories, new_goldenfile creates the tempdir file, and a move of an
\* existing goldenfile copies it to the tempdir, whether or not the
\* directory of the tempdir path existed before the call.
C18_AutoCreateParents ==
    [][ /\ last'.op \in NewOps =>
              /\ last'.res = "ok"
              /\ Parent(TempOf(last'.path)) \in tempdirs'
              /\ fs'[TempOf(last'.path)] = FileOf(<<>>)
        /\ (last'.op \in MoveOps /\ fs[OrigOf(last'.path)].exists) =>
              /\ last'.res = "ok"
              /\ fs'[TempOf(last'.path)] = fs[OrigOf(last'.path)]
      ]_vars

\* No entry of path p is a moved goldenfile.
NoTemporary(fls, p) == \A i \in 1..Len(fls) : fls[i].file = p => IsOriginal(fls[i])

\* C19: outside the update pass the Mint never writes or deletes the
\* goldenfile of a path that has no Temporary entry: every registration
\* method, the verify pass (whether it returns or panics, as a call of the
\* test or in Drop) and a Drop that runs no pass leave it as it was.  The
\* copy made when a comparison fails applies to Temporary entries only.
C19_OriginalUntouched ==
    [][ ( /\ last'.op \in RegisterOps \cup {"check_goldenfiles", "drop"}
          /\ last'.pass # "update" )
        => \A p \in RelPaths :
              NoTemporary(files', p) => fs'[OrigOf(p)] = fs[OrigOf(p)]
      ]_vars

\* C19's case: a verify pass ended in a content mismatch at an entry of a
\* path registered as Original only; its goldenfile still holds its own
\* content, which differs from the candidate.
C19_Witness ==
    /\ last.op = "check_goldenfiles"
    /\ last.res = "panic"
    /\ last.kind = "mismatch"
    /\ IsOriginal(files[last.at])
    /\ OnlyAs(files, files[last.at].file, "Original")
    /\ fs[OrigOf(files[last.at].file)] = FileOf(<<"a", NL>>)
    /\ fs[TempOf(files[last.at].file)] = FileOf(<<>>)

PlainRegisterOps == {"register_goldenfile", "register_goldenfile_with_differ"}

\* C20: register_goldenfile / register_goldenfile_with_differ with a
\* relative path returns Ok with the tempdir path of the relative path and
\* appends one Original entry for it at the end of the registry, the earlier
\* entries unchanged and in order, whether or not the path is registered
\* already; it creates, changes and deletes no file and no directory.
C20_RegisterAppends ==
    [][ (last'.op \in PlainRegisterOps /\ ~last'.path.root) =>
          /\ last'.res = "ok"
          /\ last'.ret = TempOf(last'.path)
          /\ Len(files') = Len(files) + 1
          /\ SubSeq(files', 1, Len(files)) = files
          /\ files'[Len(files')].file = last'.path
          /\ IsOriginal(files'[Len(files')])
          /\ last'.op = "register_goldenfile" =>
                 files'[Len(files')].differ = get_differ_for_path(last'.path)
          /\ fs' = fs
          /\ tempdirs' = tempdirs
          /\ ~panicking'
      ]_vars

\* C20's case: a path with a parent directory was registered a second time;
\* the registry holds it twice, and the tempdir has neither the file nor the
\* directory.
C20_Witness ==
    /\ last.op = "register_goldenfile"
    /\ last.path = PathB
    /\ last.res = "ok"
    /\ Len(files) = 2
    /\ files[1].file = PathB
    /\ files[2].file = PathB
    /\ IsOriginal(files[1]) /\ IsOriginal(files[2])
    /\ Parent(TempOf(PathB)) \notin tempdirs
    /\ ~fs[TempOf(PathB)].exists

====
